---- MODULE Spec2Model ----
(***************************************************************************)
(* The six-cell one-time-passcode widget of OtpInput.svelte, in its two    *)
(* implementations:                                                        *)
(*   "page"      - the page script      (lines 67-405)                     *)
(*   "component" - the component script (lines 748-893)                    *)
(* A behaviour runs one of the two (variant, chosen in Init).  A step is   *)
(* one task of the browser's event loop: a DOM event handler or a timer    *)
(* callback, together with the Svelte flush (the reactive "$:" statements) *)
(* that runs as a microtask right after it.                                *)
(*                                                                         *)
(* Strings that the code indexes or joins (the code, a pasted text) are    *)
(* sequences of one-character strings; a cell value is "" or one           *)
(* character.                                                              *)
(*                                                                         *)
(* What the environment does is bounded as follows.                        *)
(*  - Digits: cell i receives the digit the correct code has there, and    *)
(*    the last MaxWrong cells also a wrong digit (InputDigits, Fits).      *)
(*  - Component: input, keydown and paste events reach the cell that is    *)
(*    document.activeElement (domFocus).  The handlers' calls              *)
(*    inputElements[i]?.focus() do nothing: OtpInput.svelte does not       *)
(*    export inputElement (line 9), so bind:inputElement (line 912) never  *)
(*    fills inputElements.  Only the user moves the DOM focus: to another  *)
(*    cell (ComponentFocus), or off the cells with the click on the        *)
(*    button, in browsers where a click focuses a button.                  *)
(*  - Component: the text that the <input> elements themselves hold is     *)
(*    followed for the first MaxTextCells cells (domText); the elements    *)
(*    are alike and do not act on one another.                             *)
(*  - Page: input, keydown and paste events reach the focused cell.  A     *)
(*    paste is made into a cell of PagePasteCells (handlePaste does not    *)
(*    use its index) and                                                   *)
(*    while no timer is pending; while the timers of a paste are pending   *)
(*    the user only presses Enter or clicks the button.                    *)
(*  - Page: at most MaxPending auto-submit timers and verifications are    *)
(*    pending at once.                                                     *)
(* Animation timers (digit drop, cursor, shake) change no state modelled   *)
(* here and are left out.                                                  *)
(***************************************************************************)
EXTENDS Integers, Sequences, FiniteSets, TLC

VARIABLES
    variant,          \* which implementation this behaviour runs
    inputs,           \* component: inputs[]; page: textContent of each .digit-display
    activeInputIndex, \* component: activeInputIndex; page: index of document.activeElement
    domFocus,         \* the cell that is document.activeElement, or NoCell
    currentCode,      \* currentCode (component: last value of the reactive declaration)
    currentState,     \* 'default' | 'success' | 'error'
    statusText,
    isLoading,
    buttonText,
    isButtonDisabled,
    timers,           \* pending setTimeout callbacks, in the order they fall due
    attempts,         \* documented controller: failed verifications so far
    domText           \* component: how many characters the <input> element of a cell holds

vars == <<variant, inputs, activeInputIndex, domFocus, currentCode, currentState,
          statusText, isLoading, buttonText, isButtonDisabled, timers,
          attempts, domText>>

(***************************************************************************)
(* Program constants                                                       *)
(***************************************************************************)
NumCells == 6
Cells == 0..(NumCells - 1)
CORRECT_CODE == <<"1", "2", "3", "4", "5", "6">>
VerifyDelay == 1500
ClearDelay == 400
AutoSubmitDelay == 500
StaggerDelay == 100
SettleDelay == 200
EnterCodeText == "Enter 6-digit code from your two factor authenticator APP"
EnterAllText == "Please enter all 6 digits"
LeftText == <<"1 digit left", "2 digits left", "3 digits left",
              "4 digits left", "5 digits left", "6 digits left">>

(***************************************************************************)
(* Bounds of the model (the environment's inputs)                          *)
(***************************************************************************)
\* The wrong digit is only ever entered into the last MaxWrong cells; the
\* other cells receive the digit the correct code has at that place.
MaxWrong == 1
\* Page: at most MaxPending auto-submit timers and verifications are pending.
MaxPending == 2
\* Component: the <input> elements of cells 0 .. MaxTextCells - 1 are followed.
MaxTextCells == 1
WrongDigit == "9"

(***************************************************************************)
(* Pure helpers                                                            *)
(***************************************************************************)
Digits == {"0", "1", "2", "3", "4", "5", "6", "7", "8", "9"}

\* a test of the text that only rejects the empty one
IsDigit_NonEmpty(c) == c # ""

\* /^\d$/.test(value)
IsDigit(c) == c \in Digits

\* text.replace(/\D/g, '')
StripNonDigits(text) == SelectSeq(text, IsDigit)

Min(a, b) == IF a < b THEN a ELSE b

RECURSIVE JoinFrom(_, _)
JoinFrom(f, i) ==
    IF i >= NumCells THEN <<>>
    ELSE (IF f[i] = "" THEN <<>> ELSE <<f[i]>>) \o JoinFrom(f, i + 1)

\* inputs.join('') / the digit displays' textContent joined
Join(f) == JoinFrom(f, 0)

EmptyCells == [i \in Cells |-> ""]

\* the cells whose <input> element's own text is followed
TextCells == 0..(MaxTextCells - 1)

\* document.activeElement is none of the six inputs
NoCell == 0 - 1

\* page: isCodeComplete, as last computed by the flush (from currentCode)
IsCodeComplete(code) == Len(code) = 6 /\ \A j \in 1..Len(code) : IsDigit(code[j])

(***************************************************************************)
(* Timers.  A timer is a record; timers is the queue of pending ones in    *)
(* the order they fall due.  note is a history field for stating claims:   *)
(* on a "verify" timer whether the code was the correct one when that      *)
(* verification started, on a "clear" timer what the user has done since   *)
(* it was armed.                                                           *)
(***************************************************************************)
Timer(kind, idx, digit, note) ==
    [kind |-> kind, idx |-> idx, digit |-> digit, note |-> note]

Delay(t) ==
    CASE t.kind = "verify" -> VerifyDelay
      [] t.kind = "clear"  -> ClearDelay
      [] t.kind = "submit" -> AutoSubmitDelay
      [] t.kind = "drop"   -> t.idx * StaggerDelay
      [] t.kind = "final"  -> t.idx * StaggerDelay + SettleDelay

InsertAt(q, p, t) == SubSeq(q, 1, p - 1) \o <<t>> \o SubSeq(q, p, Len(q))

\* The places a timer armed now may take in the queue: behind every pending
\* timer whose own delay was no longer (it was armed no later, so it falls
\* due no later), and behind place `after`.  Its place among the pending
\* timers with a longer delay depends on how long ago those were armed.
Places(q, t, after) ==
    {p \in (after + 1)..(Len(q) + 1) :
        \A j \in 1..Len(q) : Delay(q[j]) <= Delay(t) => j < p}

Arm(q, t) == {InsertAt(q, p, t) : p \in Places(q, t, 0)}

InFlight == Cardinality({j \in 1..Len(timers) : timers[j].kind = "verify"})

Pending(q) == Cardinality({j \in 1..Len(q) :
                  \/ q[j].kind \in {"verify", "submit"}
                  \/ q[j].kind = "final" /\ q[j].idx >= 6})

\* the timers of a paste of the page variant are pending
PastePending(q) == \E j \in 1..Len(q) : q[j].kind \in {"drop", "final"}

\* history: the user acted while a delayed clear was pending
Touch(q, how) ==
    [j \in 1..Len(q) |->
        IF q[j].kind = "clear" /\ q[j].note # "newer"
        THEN [q[j] EXCEPT !.note = how] ELSE q[j]]

(***************************************************************************)
(* Inputs of the environment                                               *)
(***************************************************************************)
\* the digits typed into cell i
InputDigits(i) ==
    {CORRECT_CODE[i + 1]} \cup (IF i >= NumCells - MaxWrong THEN {WrongDigit} ELSE {})

\* texts of an input event that are not one decimal digit
NonDigitValues == {"a", "", " ", "12"}

\* the values an input event on cell i carries: a digit or a non-digit
InputValues(i) == InputDigits(i) \cup NonDigitValues

Keys == {"Backspace", "ArrowLeft", "ArrowRight", "ArrowUp", "ArrowDown", "Enter"}

PasteTexts ==
    { <<"1", "2", "3", "4", "5", "6">>,
      <<"1", "a", "2", "b", "3", "c", "4", "d", "5", "e", "6", "f">>,
      <<"1", "2", "3", "4", "5", "9">>,
      <<"1", "2", "3", "4", "5", "6", "7">>,
      <<"1", "2">>,
      <<"5", "6">>,
      <<"9", "9">>,
      <<"9">>,
      <<"a", "b", "c">> }

\* page: the cells a paste is made into (handlePaste does not use its index)
PagePasteCells == {0, 3}

\* the digits of text, written from cell k on, stay within InputDigits
Fits(text, k) ==
    LET d == StripNonDigits(text)
    IN \A i \in 0..(Min(Len(d), NumCells - k) - 1) : d[i + 1] \in InputDigits(k + i)

(***************************************************************************)
(* Component variant                                                       *)
(***************************************************************************)
\* a flush whose reactive block enables the button one digit early
ComponentFlush_OneDigitEarly(inputsN, stateN, textN) ==
    LET codeN == Join(inputsN)
        digitsEntered == Len(codeN)
        digitsLeft == 6 - digitsEntered
        run == codeN # currentCode \/ stateN # currentState
    IN /\ currentCode' = codeN
       /\ isButtonDisabled' = IF run THEN digitsLeft > 1 ELSE isButtonDisabled
       /\ buttonText' = IF run
                        THEN (IF digitsLeft > 0 THEN LeftText[digitsLeft]
                                                ELSE "Verify the code")
                        ELSE textN
       /\ currentState' = IF run /\ stateN = "error" /\ digitsEntered > 0
                          THEN "default" ELSE stateN
       /\ statusText' = IF run /\ stateN = "error" /\ digitsEntered > 0
                        THEN EnterCodeText ELSE statusText

\* The flush after a component task: "$: currentCode = inputs.join('')" and
\* the reactive block (lines 769-793).  The block runs when currentCode or
\* currentState was given a new value by the task; inputsN, stateN, textN are
\* the values the task left in inputs, currentState and buttonText.
ComponentFlush(inputsN, stateN, textN) ==
    LET codeN == Join(inputsN)
        digitsEntered == Len(codeN)
        digitsLeft == 6 - digitsEntered
        run == codeN # currentCode \/ stateN # currentState
    IN /\ currentCode' = codeN
       /\ isButtonDisabled' = IF run THEN digitsLeft > 0 ELSE isButtonDisabled
       /\ buttonText' = IF run
                        THEN (IF digitsLeft > 0 THEN LeftText[digitsLeft]
                                                ELSE "Verify the code")
                        ELSE textN
       /\ currentState' = IF run /\ stateN = "error" /\ digitsEntered > 0
                          THEN "default" ELSE stateN
       /\ statusText' = IF run /\ stateN = "error" /\ digitsEntered > 0
                        THEN EnterCodeText ELSE statusText

\* a handleInput without the test of line 820
ComponentHandleInput_AlwaysAdvances(index, value) ==
    /\ variant = "component"
    /\ index = domFocus
    /\ domFocus' = domFocus
    /\ domText' = IF index \in TextCells
                   THEN [domText EXCEPT ![index] = IF value = "" THEN 0 ELSE 1]
                   ELSE domText
    /\ IF ~IsDigit(value)
       THEN UNCHANGED <<variant, inputs, activeInputIndex, currentCode,
                        currentState, statusText, isLoading, buttonText,
                        isButtonDisabled, timers, attempts>>
       ELSE LET inputsN == [inputs EXCEPT ![index] = value]
            IN /\ inputs' = inputsN
               /\ activeInputIndex' = index + 1
               /\ ComponentFlush(inputsN, currentState, buttonText)
               /\ timers' = Touch(timers, "newer")
               /\ UNCHANGED <<variant, attempts, isLoading>>

\* handleInput (lines 811-824): an input event on cell index, whose element
\* then holds the text value; domText keeps whether that is empty.  The
\* element's text is bound to nothing and no code writes it (lines 40-50).
\* The event is any edit the user makes: a character typed into the empty
\* element, a character typed over the selected text, the text deleted
\* (value "").
ComponentHandleInput(index, value) ==
    /\ variant = "component"
    /\ index = domFocus
    /\ domFocus' = domFocus
    /\ domText' = IF index \in TextCells
                   THEN [domText EXCEPT ![index] = IF value = "" THEN 0 ELSE 1]
                   ELSE domText
    /\ IF ~IsDigit(value)
       THEN UNCHANGED <<variant, inputs, activeInputIndex, currentCode,
                        currentState, statusText, isLoading, buttonText,
                        isButtonDisabled, timers, attempts>>
       ELSE LET inputsN == [inputs EXCEPT ![index] = value]
            IN /\ inputs' = inputsN
               /\ activeInputIndex' = IF index < 5 THEN index + 1 ELSE activeInputIndex
               /\ ComponentFlush(inputsN, currentState, buttonText)
               /\ timers' = Touch(timers, "newer")
               /\ UNCHANGED <<variant, attempts, isLoading>>

\* a handleKeydown in which ArrowUp and ArrowDown move like Left and Right
ComponentHandleKeydown_UpDownMove(index, key) ==
    /\ variant = "component"
    /\ index = domFocus
    /\ domFocus' = domFocus
    /\ IF key = "Backspace"
       THEN LET inputsN == IF inputs[index] # ""
                           THEN [inputs EXCEPT ![index] = ""]
                           ELSE IF index > 0 THEN [inputs EXCEPT ![index - 1] = ""]
                           ELSE inputs
            IN /\ inputs' = inputsN
               /\ activeInputIndex' = IF inputs[index] = "" /\ index > 0
                                      THEN index - 1 ELSE activeInputIndex
               /\ ComponentFlush(inputsN, currentState, buttonText)
       ELSE /\ activeInputIndex' =
                  IF key \in {"ArrowLeft", "ArrowUp"} /\ index > 0 THEN index - 1
                  ELSE IF key \in {"ArrowRight", "ArrowDown"} /\ index < 5 THEN index + 1
                  ELSE activeInputIndex
            /\ UNCHANGED <<inputs, currentCode, currentState, statusText,
                           buttonText, isButtonDisabled>>
    /\ timers' = Touch(timers, "touched")
    /\ UNCHANGED <<variant, attempts, domText, isLoading>>

\* handleKeydown (lines 826-846)
ComponentHandleKeydown(index, key) ==
    /\ variant = "component"
    /\ index = domFocus
    /\ domFocus' = domFocus
    /\ IF key = "Backspace"
       THEN LET inputsN == IF inputs[index] # ""
                           THEN [inputs EXCEPT ![index] = ""]
                           ELSE IF index > 0 THEN [inputs EXCEPT ![index - 1] = ""]
                           ELSE inputs
            IN /\ inputs' = inputsN
               /\ activeInputIndex' = IF inputs[index] = "" /\ index > 0
                                      THEN index - 1 ELSE activeInputIndex
               /\ ComponentFlush(inputsN, currentState, buttonText)
       ELSE /\ activeInputIndex' =
                  IF key = "ArrowLeft" /\ index > 0 THEN index - 1
                  ELSE IF key = "ArrowRight" /\ index < 5 THEN index + 1
                  ELSE activeInputIndex
            /\ UNCHANGED <<inputs, currentCode, currentState, statusText,
                           buttonText, isButtonDisabled>>
    /\ timers' = Touch(timers, "touched")
    /\ UNCHANGED <<variant, attempts, domText, isLoading>>

\* a handlePaste that writes every pasted digit, also past the sixth cell
ComponentHandlePaste_NoEnd(index, text) ==
    /\ variant = "component"
    /\ index = domFocus
    /\ domFocus' = domFocus
    /\ LET pastedData == StripNonDigits(text)
           end == index + Len(pastedData)
           inputsN == [c \in 0..(IF end > 6 THEN end - 1 ELSE 5) |->
                          IF c >= index /\ c - index < end - index
                          THEN pastedData[c - index + 1] ELSE inputs[c]]
       IN IF Len(pastedData) = 0
          THEN UNCHANGED vars
          ELSE /\ inputs' = inputsN
               /\ activeInputIndex' = Min(end, 5)
               /\ ComponentFlush(inputsN, currentState, buttonText)
               /\ timers' = Touch(timers, "newer")
               /\ UNCHANGED <<variant, attempts, domText, isLoading>>

\* a handlePaste without the early return of line 852
ComponentHandlePaste_NoEarlyReturn(index, text) ==
    /\ variant = "component"
    /\ index = domFocus
    /\ domFocus' = domFocus
    /\ LET pastedData == StripNonDigits(text)
           end == Min(index + Len(pastedData), 6)
           inputsN == [c \in Cells |->
                          IF c >= index /\ c - index < end - index
                          THEN pastedData[c - index + 1] ELSE inputs[c]]
       IN /\ inputs' = inputsN
          /\ activeInputIndex' = Min(end, 5)
          /\ ComponentFlush(inputsN, currentState, buttonText)
          /\ timers' = Touch(timers, "newer")
          /\ UNCHANGED <<variant, attempts, domText, isLoading>>

\* a handlePaste that leaves the focus on the last cell it wrote
ComponentHandlePaste_FocusLastWritten(index, text) ==
    /\ variant = "component"
    /\ index = domFocus
    /\ domFocus' = domFocus
    /\ LET pastedData == StripNonDigits(text)
           end == Min(index + Len(pastedData), 6)
           inputsN == [c \in Cells |->
                          IF c >= index /\ c - index < end - index
                          THEN pastedData[c - index + 1] ELSE inputs[c]]
       IN IF Len(pastedData) = 0
          THEN UNCHANGED vars
          ELSE /\ inputs' = inputsN
               /\ activeInputIndex' = end - 1
               /\ ComponentFlush(inputsN, currentState, buttonText)
               /\ timers' = Touch(timers, "newer")
               /\ UNCHANGED <<variant, attempts, domText, isLoading>>

\* a handlePaste that first clears every cell, as the page's does
ComponentHandlePaste_ClearsFirst(index, text) ==
    /\ variant = "component"
    /\ index = domFocus
    /\ domFocus' = domFocus
    /\ LET pastedData == StripNonDigits(text)
           end == Min(index + Len(pastedData), 6)
           inputsN == [c \in Cells |->
                          IF c >= index /\ c - index < end - index
                          THEN pastedData[c - index + 1] ELSE ""]
       IN IF Len(pastedData) = 0
          THEN UNCHANGED vars
          ELSE /\ inputs' = inputsN
               /\ activeInputIndex' = Min(end, 5)
               /\ ComponentFlush(inputsN, currentState, buttonText)
               /\ timers' = Touch(timers, "newer")
               /\ UNCHANGED <<variant, attempts, domText, isLoading>>

\* a handlePaste that keeps every character of the clipboard text
ComponentHandlePaste_NoStrip(index, text) ==
    /\ variant = "component"
    /\ index = domFocus
    /\ domFocus' = domFocus
    /\ LET pastedData == text
           end == Min(index + Len(pastedData), 6)
           inputsN == [c \in Cells |->
                          IF c >= index /\ c - index < end - index
                          THEN pastedData[c - index + 1] ELSE inputs[c]]
       IN IF Len(pastedData) = 0
          THEN UNCHANGED vars
          ELSE /\ inputs' = inputsN
               /\ activeInputIndex' = Min(end, 5)
               /\ ComponentFlush(inputsN, currentState, buttonText)
               /\ timers' = Touch(timers, "newer")
               /\ UNCHANGED <<variant, attempts, domText, isLoading>>

\* handlePaste (lines 848-861): a paste event on cell index with clipboard text
ComponentHandlePaste(index, text) ==
    /\ variant = "component"
    /\ index = domFocus
    /\ domFocus' = domFocus
    /\ LET pastedData == StripNonDigits(text)
           end == Min(index + Len(pastedData), 6)
           inputsN == [c \in Cells |->
                          IF c >= index /\ c - index < end - index
                          THEN pastedData[c - index + 1] ELSE inputs[c]]
       IN IF Len(pastedData) = 0
          THEN UNCHANGED vars
          ELSE /\ inputs' = inputsN
               /\ activeInputIndex' = Min(end, 5)
               /\ ComponentFlush(inputsN, currentState, buttonText)
               /\ timers' = Touch(timers, "newer")
               /\ UNCHANGED <<variant, attempts, domText, isLoading>>

\* a focus handler that also empties the cell that took the focus
ComponentFocus_ClearsCell(index) ==
    /\ variant = "component"
    /\ index # domFocus
    /\ domFocus' = index
    /\ activeInputIndex' = index
    /\ inputs' = [inputs EXCEPT ![index] = ""]
    /\ ComponentFlush(inputs', currentState, buttonText)
    /\ timers' = Touch(timers, "touched")
    /\ UNCHANGED <<variant, attempts, domText, isLoading>>

\* on:focus of a cell (line 911): the user moves the DOM focus to it
ComponentFocus(index) ==
    /\ variant = "component"
    /\ index # domFocus
    /\ domFocus' = index
    /\ activeInputIndex' = index
    /\ timers' = Touch(timers, "touched")
    /\ UNCHANGED <<variant, attempts, domText, inputs, currentCode, currentState, statusText,
                   isLoading, buttonText, isButtonDisabled>>

\* handleSubmit up to its await (lines 863-868), run by a click on the
\* button, which is disabled while isButtonDisabled || isLoading (line 919).
\* The click leaves the DOM focus where it is or moves it to the button.
ComponentHandleSubmit ==
    /\ variant = "component"
    /\ ~(isButtonDisabled \/ isLoading)
    /\ domFocus' \in {domFocus, NoCell}
    /\ IF Len(currentCode) # 6
       THEN UNCHANGED vars
       ELSE /\ isLoading' = TRUE
            /\ \E q \in Arm(Touch(timers, "newer"),
                            Timer("verify", 0, "",
                                  IF currentCode = CORRECT_CODE THEN "ok" ELSE "bad")) :
                  timers' = q
            /\ UNCHANGED <<variant, attempts, domText, inputs, activeInputIndex, currentCode,
                           currentState, statusText, buttonText, isButtonDisabled>>

\* handleSubmit after its await (lines 870-884): the 1500 ms timer fired
ComponentVerified ==
    /\ variant = "component"
    /\ timers # <<>>
    /\ Head(timers).kind = "verify"
    /\ domFocus' = domFocus
    /\ isLoading' = FALSE
    /\ IF currentCode = CORRECT_CODE
       THEN /\ ComponentFlush(inputs, "success", "Let's go!")
            /\ timers' = Tail(timers)
       ELSE /\ ComponentFlush(inputs, "error", "Wrong code!")
            /\ \E q \in Arm(Tail(timers), Timer("clear", 0, "", "quiet")) : timers' = q
    /\ UNCHANGED <<variant, attempts, domText, inputs, activeInputIndex>>

\* the delayed clear (lines 878-882): the 400 ms timer fired
ComponentClear ==
    /\ variant = "component"
    /\ timers # <<>>
    /\ Head(timers).kind = "clear"
    /\ domFocus' = domFocus
    /\ inputs' = EmptyCells
    /\ activeInputIndex' = 0
    /\ ComponentFlush(EmptyCells, currentState, buttonText)
    /\ timers' = Tail(timers)
    /\ UNCHANGED <<variant, attempts, domText, isLoading>>

ComponentNext ==
    \/ \E i \in Cells : \E v \in InputValues(i) : ComponentHandleInput(i, v)
    \/ \E i \in Cells : \E k \in Keys : ComponentHandleKeydown(i, k)
    \/ \E i \in Cells : \E t \in PasteTexts : Fits(t, i) /\ ComponentHandlePaste(i, t)
    \/ \E i \in Cells : ComponentFocus(i)
    \/ ComponentHandleSubmit
    \/ ComponentVerified
    \/ ComponentClear

(***************************************************************************)
(* Page variant                                                            *)
(***************************************************************************)
\* The flush after a page task: the reactive block of lines 88-105, whose
\* results depend on isLoading, currentState and digitsLeft alone.
PageButtonText(loading, state, code) ==
    LET digitsLeft == 6 - Len(code)
    IN IF loading THEN ""
       ELSE IF state = "success" THEN "Let's go!"
       ELSE IF state = "error" THEN "Wrong code!"
       ELSE IF digitsLeft > 0 THEN LeftText[digitsLeft]
       ELSE "Verify the code"

PageButtonDisabled(loading, state, code) ==
    LET digitsLeft == 6 - Len(code)
    IN IF loading THEN TRUE
       ELSE IF state = "success" THEN FALSE
       ELSE IF state = "error" THEN FALSE
       ELSE digitsLeft > 0

PageFlush ==
    /\ buttonText' = PageButtonText(isLoading', currentState', currentCode')
    /\ isButtonDisabled' = PageButtonDisabled(isLoading', currentState', currentCode')

\* setState (lines 380-395)
SetState(state, message) ==
    /\ currentState' = state
    /\ statusText' = IF message # "" THEN message ELSE statusText

\* handleSubmit (lines 352-363) with simulateVerification up to its await
\* (line 367).  isCodeComplete is the value the last flush computed.
PageSubmit(q) ==
    IF ~IsCodeComplete(currentCode)
    THEN /\ SetState("error", EnterAllText)
         /\ timers' = q
         /\ UNCHANGED isLoading
    ELSE /\ isLoading' = TRUE
         /\ \E r \in Arm(q, Timer("verify", 0, "",
                            IF currentCode = CORRECT_CODE THEN "ok" ELSE "bad")) :
               timers' = r
         /\ UNCHANGED <<currentState, statusText>>

\* handleInput (lines 133-161): an input event on the focused cell.  The
\* test of isCodeComplete at line 158 reads the value of the last flush:
\* the reactive declaration of line 85 has not yet seen the currentCode that
\* updateCurrentCode() has just set.
PageHandleInput(index, value) ==
    /\ variant = "page"
    /\ index = activeInputIndex
    /\ ~PastePending(timers)
    /\ IF ~IsDigit(value)
       THEN UNCHANGED vars
       ELSE /\ inputs' = [inputs EXCEPT ![index] = value]
            /\ currentCode' = Join(inputs')
            /\ activeInputIndex' = IF index < NumCells - 1 THEN index + 1
                                   ELSE activeInputIndex
            /\ IF IsCodeComplete(currentCode)
               THEN /\ Pending(timers) < MaxPending
                    /\ \E q \in Arm(timers, Timer("submit", 0, "", "")) : timers' = q
               ELSE timers' = timers
            /\ UNCHANGED <<variant, attempts, domText, currentState, statusText, isLoading>>
            /\ PageFlush
    /\ domFocus' = activeInputIndex'

\* handleKeydown (lines 163-210): a keydown event on the focused cell
PageHandleKeydown(index, key) ==
    /\ variant = "page"
    /\ index = activeInputIndex
    /\ PastePending(timers) => key = "Enter"
    /\ IF key = "Backspace"
       THEN /\ inputs' = IF inputs[index] = "" /\ index > 0
                         THEN [inputs EXCEPT ![index - 1] = ""]
                         ELSE [inputs EXCEPT ![index] = ""]
            /\ activeInputIndex' = IF inputs[index] = "" /\ index > 0
                                   THEN index - 1 ELSE activeInputIndex
            /\ currentCode' = Join(inputs')
            /\ UNCHANGED <<currentState, statusText, isLoading, timers>>
       ELSE IF key = "Enter" /\ IsCodeComplete(currentCode)
       THEN /\ Pending(timers) < MaxPending
            /\ PageSubmit(timers)
            /\ UNCHANGED <<inputs, activeInputIndex, currentCode>>
       ELSE /\ activeInputIndex' =
                  IF key = "ArrowLeft" /\ index > 0 THEN index - 1
                  ELSE IF key = "ArrowRight" /\ index < NumCells - 1 THEN index + 1
                  ELSE activeInputIndex
            /\ UNCHANGED <<inputs, currentCode, currentState, statusText,
                           isLoading, timers>>
    /\ UNCHANGED <<variant, attempts, domText>>
    /\ PageFlush
    /\ domFocus' = activeInputIndex'

\* The timers one call of handlePaste arms (lines 226-247), by delay.  The
\* callback of the last one closes over pastedData (lines 237, 244).
PasteTimers(pastedData) ==
    [j \in 1..(Min(Len(pastedData), NumCells) + 1) |->
        IF j <= Min(Len(pastedData), NumCells)
        THEN Timer("drop", j - 1, pastedData[j], "")
        ELSE Timer("final", Len(pastedData), "", pastedData)]

\* Two calls of handlePaste in one task: each timer of the second call falls
\* due right after the timer of the first call with the same delay.
Twice(batch) == [j \in 1..(2 * Len(batch)) |-> batch[(j + 1) \div 2]]

\* The queues that arming the timers of batch, in this order and in one
\* task, can give: each takes a place behind the one armed before it.
RECURSIVE ArmAll(_, _, _)
ArmAll(q, batch, after) ==
    IF batch = <<>> THEN {q}
    ELSE UNION {ArmAll(InsertAt(q, p, Head(batch)), Tail(batch), p) :
                    p \in Places(q, Head(batch), after)}

\* A paste into the focused cell.  The event reaches the cell's own
\* on:paste listener (lines 484, 506) and then, bubbling, the document's
\* listener handleGlobalPaste (lines 114-125): handlePaste (lines 212-249)
\* runs twice.
PageHandlePaste(index, text) ==
    /\ variant = "page"
    /\ index = activeInputIndex
    /\ LET pastedData == StripNonDigits(text)
       IN IF Len(pastedData) = 0
          THEN UNCHANGED vars
          ELSE /\ timers = <<>>
               /\ inputs' = EmptyCells
               /\ \E q \in ArmAll(timers, Twice(PasteTimers(pastedData)), 0) : timers' = q
               /\ UNCHANGED <<variant, attempts, domText, activeInputIndex, currentCode, currentState,
                              statusText, isLoading, buttonText, isButtonDisabled>>
    /\ domFocus' = activeInputIndex'

\* on:focus of a cell (lines 482, 504): the user moves the focus
PageFocus(index) ==
    /\ variant = "page"
    /\ ~PastePending(timers)
    /\ activeInputIndex' = index
    /\ UNCHANGED <<variant, attempts, domText, inputs, currentCode, currentState, statusText,
                   isLoading, buttonText, isButtonDisabled, timers>>
    /\ domFocus' = activeInputIndex'

\* a click on the button (line 523), disabled while isButtonDisabled (line 522)
PageClickSubmit ==
    /\ variant = "page"
    /\ ~isButtonDisabled
    /\ Pending(timers) < MaxPending
    /\ PageSubmit(timers)
    /\ UNCHANGED <<variant, attempts, domText, inputs, activeInputIndex, currentCode>>
    /\ PageFlush
    /\ domFocus' = activeInputIndex'

\* the auto-submit timer of line 159 or 245 fired
PageAutoSubmit ==
    /\ variant = "page"
    /\ timers # <<>>
    /\ Head(timers).kind = "submit"
    /\ PageSubmit(Tail(timers))
    /\ UNCHANGED <<variant, attempts, domText, inputs, activeInputIndex, currentCode>>
    /\ PageFlush
    /\ domFocus' = activeInputIndex'

\* simulateVerification after its await (lines 369-377): the 1500 ms timer fired
PageVerified ==
    /\ variant = "page"
    /\ timers # <<>>
    /\ Head(timers).kind = "verify"
    /\ isLoading' = FALSE
    /\ IF currentCode = CORRECT_CODE
       THEN SetState("success", EnterCodeText)
       ELSE SetState("error", EnterCodeText)
    /\ timers' = Tail(timers)
    /\ UNCHANGED <<variant, attempts, domText, inputs, activeInputIndex, currentCode>>
    /\ PageFlush
    /\ domFocus' = activeInputIndex'

\* a staggered digit timer of a paste fired (lines 227-229): animateDigitDrop
PageDrop ==
    /\ variant = "page"
    /\ timers # <<>>
    /\ Head(timers).kind = "drop"
    /\ inputs' = [inputs EXCEPT ![Head(timers).idx] = Head(timers).digit]
    /\ timers' = Tail(timers)
    /\ UNCHANGED <<variant, attempts, domText, activeInputIndex, currentCode, currentState,
                   statusText, isLoading, buttonText, isButtonDisabled>>
    /\ domFocus' = activeInputIndex'

LastPaste(q) ==
    IF PastePending(q)
    THEN CHOOSE j \in 1..Len(q) :
            /\ q[j].kind \in {"drop", "final"}
            /\ \A k \in (j + 1)..Len(q) : q[k].kind \notin {"drop", "final"}
    ELSE 0

\* a closing timer that does not call updateCurrentCode
PageSettle_KeepsCode ==
    /\ variant = "page"
    /\ timers # <<>>
    /\ Head(timers).kind = "final"
    /\ currentCode' = currentCode
    /\ activeInputIndex' = Min(Head(timers).idx, NumCells - 1)
    /\ IF Head(timers).idx >= 6
       THEN \E p \in Places(Tail(timers), Timer("submit", 0, "", ""),
                            LastPaste(Tail(timers))) :
               timers' = InsertAt(Tail(timers), p, Timer("submit", 0, "", ""))
       ELSE timers' = Tail(timers)
    /\ UNCHANGED <<variant, attempts, domText, inputs, currentState, statusText, isLoading>>
    /\ PageFlush
    /\ domFocus' = activeInputIndex'

\* the last timer of a paste fired (lines 233-247).  The auto-submit timer it
\* arms falls due after the pending timers of the same paste.
PageSettle ==
    /\ variant = "page"
    /\ timers # <<>>
    /\ Head(timers).kind = "final"
    /\ currentCode' = Join(inputs)
    /\ activeInputIndex' = Min(Head(timers).idx, NumCells - 1)
    /\ IF Head(timers).idx >= 6
       THEN \E p \in Places(Tail(timers), Timer("submit", 0, "", ""),
                            LastPaste(Tail(timers))) :
               timers' = InsertAt(Tail(timers), p, Timer("submit", 0, "", ""))
       ELSE timers' = Tail(timers)
    /\ UNCHANGED <<variant, attempts, domText, inputs, currentState, statusText, isLoading>>
    /\ PageFlush
    /\ domFocus' = activeInputIndex'

PageNext ==
    \/ \E i \in Cells : \E v \in InputValues(i) : PageHandleInput(i, v)
    \/ \E i \in Cells : \E k \in Keys : PageHandleKeydown(i, k)
    \/ \E i \in PagePasteCells : \E t \in PasteTexts :
          Fits(t, 0) /\ PageHandlePaste(i, t)
    \/ \E i \in Cells : PageFocus(i)
    \/ PageClickSubmit
    \/ PageAutoSubmit
    \/ PageVerified
    \/ PageDrop
    \/ PageSettle

(***************************************************************************)
(* Specification                                                           *)
(***************************************************************************)
Init ==
    /\ variant \in {"page", "component"}
    /\ inputs = EmptyCells
    /\ activeInputIndex = 0
    /\ domFocus = 0
    /\ currentCode = <<>>
    /\ currentState = "default"
    /\ statusText = EnterCodeText
    /\ isLoading = FALSE
    /\ buttonText = "6 digits left"
    /\ isButtonDisabled = TRUE
    /\ timers = <<>>
    /\ attempts = 0
    /\ domText = [i \in Cells |-> 0]

Next == ComponentNext \/ PageNext

Spec == Init /\ [][Next]_vars

\* a setTimeout callback runs
TimerFires ==
    \/ ComponentVerified
    \/ ComponentClear
    \/ PageAutoSubmit
    \/ PageVerified
    \/ PageDrop
    \/ PageSettle

\* The event loop runs every callback that has fallen due: the timers are
\* fair.  Nothing is assumed of the user.
SpecFair == Spec /\ WF_vars(TimerFires)

\* each implementation on its own
ComponentInit == Init /\ variant = "component"

SpecComponent == ComponentInit /\ [][ComponentNext]_vars

PageInit == Init /\ variant = "page"

SpecPage == PageInit /\ [][PageNext]_vars

(***************************************************************************)
(* The documented controller.  The README and testing.md describe a        *)
(* component with an injected verification function and a reset() method;  *)
(* neither implementation above has them.  This part is written from the   *)
(* specification of the OtpEntryController (spec.md, sections 4.1, 5       *)
(* and 6), on the same variables: inputs are the cells, activeInputIndex   *)
(* is FocusIndex, LifecycleState is Verifying while isLoading and          *)
(* otherwise currentState.  Auto-submit is enabled (the default).          *)
(* The option maxAttempts (spec.md section 6, README Props, the test       *)
(* 'handles rate limiting') is configured: a verification that does not    *)
(* verify counts as a failed attempt, and once maxAttempts of them are     *)
(* counted the operations that take input or start a verification are      *)
(* no-ops.  reset() does what section 4.1 lists and keeps the count.       *)
(***************************************************************************)
\* the configured option maxAttempts
maxAttempts == 2

\* further input is disabled
Locked == attempts >= maxAttempts

\* what the verification collaborator does with a call
Outcomes == {"true", "false", "throws"}

ControllerVerifying == isLoading

\* Code is complete
Complete(f) == \A i \in Cells : IsDigit(f[i])

ControllerTerminal == ~isLoading /\ currentState = "success"

\* cancel the scheduled Error -> Idle transition and the scheduled submit
Cancel(q, kinds) == SelectSeq(q, LAMBDA t : t.kind \notin kinds)

\* the rest of the state after the cells and the focus index are set
ControllerAfterEdit(inputsN) ==
    /\ currentCode' = Join(inputsN)
    /\ domFocus' = activeInputIndex'
    /\ IF Complete(inputsN) /\ ~Complete(inputs)
       THEN \E q \in Arm(Cancel(timers, {"submit"}), Timer("submit", 0, "", "")) :
               timers' = q
       ELSE timers' = timers
    /\ UNCHANGED <<variant, attempts, domText, currentState, statusText, isLoading, buttonText,
                   isButtonDisabled>>

\* a setCellDigit that does not look at the count of failed attempts
ControllerSetCellDigit_IgnoresLock(index, char) ==
    /\ variant = "controller"
    /\ IF ~IsDigit(char) \/ ControllerVerifying \/ ControllerTerminal
       THEN UNCHANGED vars
       ELSE /\ inputs' = [inputs EXCEPT ![index] = char]
            /\ activeInputIndex' = IF index < 5 THEN index + 1 ELSE activeInputIndex
            /\ ControllerAfterEdit(inputs')

\* setCellDigit(index, char)
ControllerSetCellDigit(index, char) ==
    /\ variant = "controller"
    /\ IF ~IsDigit(char) \/ ControllerVerifying \/ ControllerTerminal \/ Locked
       THEN UNCHANGED vars
       ELSE /\ inputs' = [inputs EXCEPT ![index] = char]
            /\ activeInputIndex' = IF index < 5 THEN index + 1 ELSE activeInputIndex
            /\ ControllerAfterEdit(inputs')

\* handleBackspace(index)
ControllerHandleBackspace(index) ==
    /\ variant = "controller"
    /\ IF ControllerTerminal \/ Locked
       THEN UNCHANGED vars
       ELSE /\ inputs' = IF inputs[index] # "" THEN [inputs EXCEPT ![index] = ""]
                         ELSE IF index > 0 THEN [inputs EXCEPT ![index - 1] = ""]
                         ELSE inputs
            /\ activeInputIndex' = IF inputs[index] # "" THEN index
                                   ELSE IF index > 0 THEN index - 1
                                   ELSE activeInputIndex
            /\ ControllerAfterEdit(inputs')

\* handleArrow(direction, index)
ControllerHandleArrow(direction, index) ==
    /\ variant = "controller"
    /\ activeInputIndex' =
          IF ControllerTerminal \/ Locked THEN activeInputIndex
          ELSE IF direction = "Left" THEN (IF index > 0 THEN index - 1 ELSE 0)
          ELSE IF direction = "Right" THEN Min(5, index + 1)
          ELSE activeInputIndex
    /\ domFocus' = activeInputIndex'
    /\ UNCHANGED <<variant, attempts, domText, inputs, currentCode, currentState, statusText,
                   isLoading, buttonText, isButtonDisabled, timers>>

\* handlePaste(rawText, index)
ControllerHandlePaste(rawText, index) ==
    /\ variant = "controller"
    /\ LET d == StripNonDigits(rawText)
       IN IF Len(d) = 0 \/ ControllerVerifying \/ ControllerTerminal \/ Locked
          THEN UNCHANGED vars
          ELSE /\ inputs' = [c \in Cells |->
                                IF c >= index /\ c - index < Min(Len(d), 6 - index)
                                THEN d[c - index + 1] ELSE inputs[c]]
               /\ activeInputIndex' = Min(index + Len(d), 5)
               /\ ControllerAfterEdit(inputs')

\* submit(): LifecycleState <- Verifying and the collaborator is called
ControllerStart(q) ==
    IF ~Complete(inputs) \/ ControllerVerifying \/ ControllerTerminal \/ Locked
    THEN timers' = q /\ UNCHANGED <<isLoading, currentState>>
    ELSE /\ isLoading' = TRUE
         /\ currentState' = "default"
         /\ \E r \in Arm(Cancel(q, {"clear", "submit"}),
                         Timer("verify", 0, "",
                               IF currentCode = CORRECT_CODE THEN "ok" ELSE "bad")) :
               timers' = r

\* submit(), called explicitly
ControllerSubmit ==
    /\ variant = "controller"
    /\ ControllerStart(timers)
    /\ UNCHANGED <<variant, attempts, domText, inputs, activeInputIndex, domFocus, currentCode,
                   statusText, buttonText, isButtonDisabled>>

\* submit(), called by the schedule of an edit that completed the code
ControllerAutoSubmit ==
    /\ variant = "controller"
    /\ timers # <<>>
    /\ Head(timers).kind = "submit"
    /\ ControllerStart(Tail(timers))
    /\ UNCHANGED <<variant, attempts, domText, inputs, activeInputIndex, domFocus, currentCode,
                   statusText, buttonText, isButtonDisabled>>

\* a resolution that does not catch what the call throws: the widget stays
\* as it is, loading
ControllerResolved_Uncaught(outcome) ==
    /\ variant = "controller"
    /\ timers # <<>>
    /\ Head(timers).kind = "verify"
    /\ outcome = "true" => Head(timers).note = "ok"
    /\ outcome = "false" => Head(timers).note = "bad"
    /\ isLoading' = (outcome = "throws")
    /\ IF outcome = "true"
       THEN /\ currentState' = "success"
            /\ timers' = Tail(timers)
       ELSE IF outcome = "throws"
       THEN /\ currentState' = currentState
            /\ timers' = Tail(timers)
       ELSE /\ currentState' = "error"
            /\ \E q \in Arm(Tail(timers), Timer("clear", 0, "", outcome)) : timers' = q
    /\ attempts' = IF outcome = "false" THEN attempts + 1 ELSE attempts
    /\ UNCHANGED <<variant, domText, inputs, activeInputIndex, domFocus,
                   currentCode, statusText, buttonText, isButtonDisabled>>

\* the verification call resolves: verified only if it returned true, which
\* the demo collaborator does for the code that equals the fixed constant
ControllerResolved(outcome) ==
    /\ variant = "controller"
    /\ timers # <<>>
    /\ Head(timers).kind = "verify"
    /\ outcome = "true" => Head(timers).note = "ok"
    /\ outcome = "false" => Head(timers).note = "bad"
    /\ isLoading' = FALSE
    /\ IF outcome = "true"
       THEN /\ currentState' = "success"
            /\ timers' = Tail(timers)
       ELSE /\ currentState' = "error"
            /\ \E q \in Arm(Tail(timers), Timer("clear", 0, "", outcome)) : timers' = q
    /\ attempts' = IF outcome = "true" THEN attempts ELSE attempts + 1
    /\ UNCHANGED <<variant, domText, inputs, activeInputIndex, domFocus,
                   currentCode, statusText, buttonText, isButtonDisabled>>

\* the fixed delay after an Error elapsed
ControllerClear ==
    /\ variant = "controller"
    /\ timers # <<>>
    /\ Head(timers).kind = "clear"
    /\ inputs' = EmptyCells
    /\ activeInputIndex' = 0
    /\ domFocus' = 0
    /\ currentCode' = <<>>
    /\ currentState' = "default"
    /\ timers' = Tail(timers)
    /\ UNCHANGED <<variant, attempts, domText, statusText, isLoading, buttonText, isButtonDisabled>>

\* a reset() that leaves what was scheduled or in flight
ControllerReset_KeepsTimers ==
    /\ variant = "controller"
    /\ inputs' = EmptyCells
    /\ activeInputIndex' = 0
    /\ domFocus' = 0
    /\ currentCode' = <<>>
    /\ currentState' = "default"
    /\ isLoading' = FALSE
    /\ UNCHANGED <<variant, attempts, domText, statusText, buttonText, isButtonDisabled, timers>>

\* reset(): whatever the state; what was scheduled or in flight is dropped
ControllerReset ==
    /\ variant = "controller"
    /\ inputs' = EmptyCells
    /\ activeInputIndex' = 0
    /\ domFocus' = 0
    /\ currentCode' = <<>>
    /\ currentState' = "default"
    /\ isLoading' = FALSE
    /\ timers' = <<>>
    /\ UNCHANGED <<variant, attempts, domText, statusText, buttonText, isButtonDisabled>>

ControllerNext ==
    \/ \E i \in Cells : \E v \in InputValues(i) : ControllerSetCellDigit(i, v)
    \/ \E i \in Cells : ControllerHandleBackspace(i)
    \/ \E i \in Cells : \E d \in {"Left", "Right", "Up", "Down"} :
          ControllerHandleArrow(d, i)
    \/ \E i \in Cells : \E t \in PasteTexts : Fits(t, i) /\ ControllerHandlePaste(t, i)
    \/ ControllerSubmit
    \/ ControllerAutoSubmit
    \/ \E o \in Outcomes : ControllerResolved(o)
    \/ ControllerClear
    \/ ControllerReset

ControllerInit ==
    /\ variant = "controller"
    /\ inputs = EmptyCells
    /\ activeInputIndex = 0
    /\ domFocus = 0
    /\ currentCode = <<>>
    /\ currentState = "default"
    /\ statusText = EnterCodeText
    /\ isLoading = FALSE
    /\ buttonText = "6 digits left"
    /\ isButtonDisabled = TRUE
    /\ timers = <<>>
    /\ attempts = 0
    /\ domText = [i \in Cells |-> 0]

SpecController == ControllerInit /\ [][ControllerNext]_vars

(***************************************************************************)
(* Vocabulary of the claims                                                *)
(***************************************************************************)
\* The lifecycle state: Verifying while a verification is in flight, else
\* currentState (Idle being 'default').
Lifecycle ==
    IF InFlight > 0 THEN "Verifying"
    ELSE IF currentState = "success" THEN "Success"
    ELSE IF currentState = "error" THEN "Error"
    ELSE "Idle"

\* the step is an input event carrying a digit
TypesDigit ==
    \E i \in Cells : \E v \in InputDigits(i) :
        ComponentHandleInput(i, v) \/ PageHandleInput(i, v)

\* the step is an input event on cell i with text v
InputEvent(i, v) == ComponentHandleInput(i, v) \/ PageHandleInput(i, v)

\* the step is a keydown event on cell i with key k
KeydownEvent(i, k) == ComponentHandleKeydown(i, k) \/ PageHandleKeydown(i, k)

\* the step is a Backspace keydown
PressesBackspace ==
    \E i \in Cells :
        ComponentHandleKeydown(i, "Backspace") \/ PageHandleKeydown(i, "Backspace")

\* the step is a paste event
Pastes ==
    \E i \in Cells : \E t \in PasteTexts :
        ComponentHandlePaste(i, t) \/ PageHandlePaste(i, t)

\* the step resolves a verification
Resolves == ComponentVerified \/ PageVerified

AllFilled(f) == \A i \in Cells : f[i] # ""

LifecycleEdges ==
    { <<"Idle", "Verifying">>, <<"Verifying", "Success">>,
      <<"Verifying", "Error">>, <<"Error", "Idle">> }

(***************************************************************************)
(* Claims                                                                  *)
(***************************************************************************)
\* C1: at most one verification is in flight at any time, in both variants.
C1_SingleFlight == InFlight <= 1

\* C2: while a verification is in flight (isLoading true), typing a digit,
\* pressing Backspace or pasting leaves every cell and the focus index
\* unchanged.
C2_NoEditWhileVerifying ==
    [][(InFlight > 0 /\ isLoading /\ (TypesDigit \/ PressesBackspace \/ Pastes))
        => (inputs' = inputs /\ activeInputIndex' = activeInputIndex)]_vars

\* C3: a verification resolves to Success exactly when the code that was in
\* the cells when it started was the expected one, whatever edits were made
\* while it was pending.
C3_OutcomeOfStartedCode ==
    [][Resolves => ((currentState' = "success") <=> (Head(timers).note = "ok"))]_vars

\* C4: once the lifecycle is Success, no typed digit, Backspace or paste
\* changes a cell.
C4_NoEditAfterSuccess ==
    [][(Lifecycle = "Success" /\ (TypesDigit \/ PressesBackspace \/ Pastes))
        => inputs' = inputs]_vars

\* C5: once the lifecycle is Success it stays Success.
C5_SuccessIsTerminal ==
    [][Lifecycle = "Success" => Lifecycle' = "Success"]_vars

\* C6: every change of the lifecycle state is one of the edges
\* Idle->Verifying, Verifying->Success, Verifying->Error, Error->Idle.
C6_OnlyTheFourEdges ==
    [][Lifecycle' # Lifecycle => <<Lifecycle, Lifecycle'>> \in LifecycleEdges]_vars

\* C7: component variant: when the delayed clear of a failed verification
\* fires and the user has done nothing since that verification resolved, the
\* widget is left with all cells empty, focus index 0 and lifecycle Idle.
C7_ErrorReturnsToIdle ==
    [][(ComponentClear /\ Head(timers).note = "quiet")
        => (inputs' = EmptyCells /\ activeInputIndex' = 0 /\ Lifecycle' = "Idle")]_vars

\* C8: component variant: after a failed verification, as long as the delayed
\* clear is pending and the user has done nothing, the lifecycle is Error.
C8_ErrorUntilCleared ==
    (variant = "component"
     /\ \E j \in 1..Len(timers) : timers[j].kind = "clear" /\ timers[j].note = "quiet")
        => Lifecycle = "Error"

\* C9: component variant: if the user entered a digit or started a new
\* verification before the delayed clear fires, its firing does not empty the
\* cells, reset the focus index or change the code being verified.
C9_ClearSparesNewerState ==
    [][(ComponentClear /\ Head(timers).note = "newer")
        => (inputs' = inputs /\ activeInputIndex' = activeInputIndex
            /\ currentCode' = currentCode)]_vars

\* C10: in both variants, when a typed digit fills the last empty cell, a
\* verification has been started or an auto-submit timer is pending after the
\* step, so that one starts with no further user action.
C10_AutoSubmitOnTyping ==
    [][(TypesDigit /\ ~AllFilled(inputs) /\ AllFilled(inputs'))
        => \E j \in 1..Len(timers') : timers'[j].kind \in {"submit", "verify"}]_vars

\* the step is a click on the button, an Enter keydown or the firing of an
\* auto-submit timer
SubmitAttempt ==
    \/ ComponentHandleSubmit
    \/ PageClickSubmit
    \/ PageAutoSubmit
    \/ \E i \in Cells : PageHandleKeydown(i, "Enter")

\* a timer is pending that leads to a verification with no user action
SubmitScheduled(q) ==
    \E j \in 1..Len(q) :
        \/ q[j].kind \in {"submit", "verify"}
        \/ q[j].kind = "final" /\ q[j].idx >= 6

\* C11: in both variants, when a paste fills the last empty cell (at once, or
\* through the last of its digit timers), a verification has been started or
\* is scheduled after the step, so that one starts with no further user action.
C11_AutoSubmitOnPaste ==
    [][((Pastes \/ PageDrop) /\ ~AllFilled(inputs) /\ AllFilled(inputs'))
        => SubmitScheduled(timers')]_vars

\* C12: in both variants a verification starts only in a state where all six
\* cells hold a digit.
C12_VerifyOnlyWhenComplete ==
    [][InFlight' > InFlight
        => \A i \in Cells : IsDigit(inputs[i])]_vars

\* C13: in both variants a submit attempt made while fewer than six cells are
\* filled leaves the lifecycle state, the status message, the cells and the
\* focus index unchanged and starts no verification.
C13_IncompleteSubmitIsNoOp ==
    [][(SubmitAttempt /\ ~AllFilled(inputs))
        => (/\ Lifecycle' = Lifecycle
            /\ currentState' = currentState
            /\ statusText' = statusText
            /\ inputs' = inputs
            /\ activeInputIndex' = activeInputIndex
            /\ InFlight' = InFlight)]_vars

\* C16: in both variants, when the lifecycle is Error and the user enters a
\* digit, the lifecycle is Idle after the step (currentState 'default'), so
\* that the cells are no longer rendered in the error style.
C16_InputClearsError ==
    [][(Lifecycle = "Error" /\ TypesDigit)
        => (Lifecycle' = "Idle" /\ currentState' = "default")]_vars

\* C17: in both variants, in every reachable state, an input event on any
\* cell whose text is not exactly one decimal digit can change no cell, not
\* the focus index and not the lifecycle state.
C17_NonDigitRejected ==
    \A i \in Cells : \A v \in NonDigitValues :
        ~ENABLED (/\ InputEvent(i, v)
                  /\ \/ inputs' # inputs
                     \/ activeInputIndex' # activeInputIndex
                     \/ currentState' # currentState
                     \/ Lifecycle' # Lifecycle)

\* a non-digit input event can reach a filled cell while the lifecycle is Error
C17_Witness ==
    \E i \in Cells :
        /\ ENABLED InputEvent(i, "a")
        /\ inputs[i] # ""
        /\ currentState = "error"

\* C18: in both variants a digit d typed into cell i sets cell i to d and
\* leaves the focus index at i + 1 if i < 5 and at 5 if i = 5.
C18_DigitAdvancesFocus ==
    [][\A i \in Cells : \A d \in InputDigits(i) :
          InputEvent(i, d)
            => (/\ inputs'[i] = d
                /\ activeInputIndex' = IF i < 5 THEN i + 1 ELSE 5)]_vars

\* C19: in both variants Backspace on a non-empty cell i empties it and
\* leaves the focus index at i; on an empty cell i > 0 it empties cell i - 1
\* and leaves the focus index at i - 1; no other cell changes.
C19_BackspaceDeletesThenStepsBack ==
    [][\A i \in Cells :
          KeydownEvent(i, "Backspace")
            => IF inputs[i] # ""
               THEN /\ inputs' = [inputs EXCEPT ![i] = ""]
                    /\ activeInputIndex' = i
               ELSE IF i > 0
               THEN /\ inputs' = [inputs EXCEPT ![i - 1] = ""]
                    /\ activeInputIndex' = i - 1
               ELSE inputs' = inputs]_vars

\* C20: in both variants, in every reachable state, ArrowLeft on cell i can
\* only leave the focus index at max(0, i - 1) and ArrowRight at
\* min(5, i + 1); Left on cell 0 and Right on cell 5 leave it unchanged.
C20_ArrowsMoveFocus ==
    \A i \in Cells :
        /\ ~ENABLED (/\ KeydownEvent(i, "ArrowLeft")
                     /\ \/ activeInputIndex' # (IF i > 0 THEN i - 1 ELSE 0)
                        \/ i = 0 /\ activeInputIndex' # activeInputIndex)
        /\ ~ENABLED (/\ KeydownEvent(i, "ArrowRight")
                     /\ \/ activeInputIndex' # (IF i < 5 THEN i + 1 ELSE 5)
                        \/ i = 5 /\ activeInputIndex' # activeInputIndex)

C21_UpDownAreNoOps ==
    \A i \in Cells : \A k \in {"ArrowUp", "ArrowDown"} :
        ~ENABLED (/\ KeydownEvent(i, k)
                  /\ \/ inputs' # inputs
                     \/ activeInputIndex' # activeInputIndex
                     \/ currentState' # currentState
                     \/ Lifecycle' # Lifecycle)

\* ArrowUp can reach a filled cell in the middle of the row
C21_Witness ==
    \E i \in 1..4 :
        /\ ENABLED KeydownEvent(i, "ArrowUp")
        /\ inputs[i] # ""
        /\ activeInputIndex = i

\* C22: a paste at cell 0 puts the digits of the text, in order and without
\* the other characters, into the cells 0 .. min(len, 6) - 1: in the component
\* at once, in the page when the last timer of the paste has fired.
C22_PasteStripsNonDigits ==
    [][/\ \A t \in PasteTexts :
            (ComponentHandlePaste(0, t) /\ StripNonDigits(t) # <<>>)
            => \A i \in 0..(Min(Len(StripNonDigits(t)), NumCells) - 1) :
                  inputs'[i] = StripNonDigits(t)[i + 1]
       /\ \A t \in PasteTexts :
            (/\ PageSettle
             /\ Head(timers).note = StripNonDigits(t)
             /\ ~PastePending(timers'))
            => \A i \in 0..(Min(Len(StripNonDigits(t)), NumCells) - 1) :
                  inputs'[i] = StripNonDigits(t)[i + 1]]_vars

\* six digits have been pasted into cell 0 of the component: the index is at
\* the last cell while the DOM focus is still on the first
C22_Witness ==
    /\ variant = "component"
    /\ inputs = [i \in Cells |-> CORRECT_CODE[i + 1]]
    /\ domFocus = 0
    /\ activeInputIndex = NumCells - 1

\* C23: component variant: a paste at cell k with digit string d leaves d[i]
\* in cell k + i for every such cell that exists and leaves every other cell
\* as it was; digits past the sixth cell are dropped.
C23_PasteWritesOnlyItsRange ==
    [][\A k \in Cells : \A t \in PasteTexts :
          ComponentHandlePaste(k, t)
          => LET d == StripNonDigits(t)
             IN \A c \in Cells :
                   inputs'[c] = IF c >= k /\ c - k < Len(d)
                                THEN d[c - k + 1] ELSE inputs[c]]_vars

\* all six cells are filled, the last one wrongly, and a paste of 56 at cell 4
\* overwrites cells 4 and 5 and keeps cells 0..3
C23_Witness ==
    /\ \A c \in Cells : inputs[c] # ""
    /\ inputs[5] = WrongDigit
    /\ ENABLED (/\ ComponentHandlePaste(4, <<"5", "6">>)
                /\ inputs' = [i \in Cells |-> CORRECT_CODE[i + 1]]
                /\ \A c \in 0..3 : inputs'[c] = inputs[c])

\* C24: component variant: a paste at cell k of a text with at least one
\* digit leaves the focus index at min(k + number of digits, 5).
C24_PasteFocusIndex ==
    [][\A k \in Cells : \A t \in PasteTexts :
          (ComponentHandlePaste(k, t) /\ StripNonDigits(t) # <<>>)
          => activeInputIndex' = Min(k + Len(StripNonDigits(t)), 5)]_vars

\* two digits have been pasted into the first cell of the empty row: the
\* index is 2 while the DOM focus is still on cell 0
C24_Witness ==
    /\ variant = "component"
    /\ domFocus = 0
    /\ activeInputIndex = 2
    /\ inputs = [i \in Cells |-> IF i < 2 THEN CORRECT_CODE[i + 1] ELSE ""]

\* clipboard texts without a digit
NoDigitTexts == { <<"a", "b", "c">>, <<>>, <<" ">>, <<"-", ".">> }

\* C25: in both variants, in every reachable state, a paste of a text without
\* a digit into any cell can change nothing: no cell, not the focus index,
\* not the lifecycle state, and it arms no timer and starts no submit.
C25_PasteWithoutDigitsIsNoOp ==
    \A i \in Cells : \A t \in NoDigitTexts :
        ~ENABLED (/\ ComponentHandlePaste(i, t) \/ PageHandlePaste(i, t)
                  /\ vars' # vars)

\* such a paste can reach a cell while digits are entered and the index is
\* not on the cell that has the DOM focus
C25_Witness ==
    \E i \in Cells :
        /\ ENABLED ComponentHandlePaste(i, <<"a", "b", "c">>)
        /\ inputs[0] # ""
        /\ activeInputIndex # i

\* C26: in both variants, in every reachable state: while all six cells are
\* filled and no verification is in flight, an Enter keydown on any cell can
\* only start a verification; while some cell is empty, an Enter keydown can
\* start none.
C26_EnterSubmits ==
    \A i \in Cells :
        /\ (AllFilled(inputs) /\ InFlight = 0 /\ ~isLoading)
           => ~ENABLED (KeydownEvent(i, "Enter") /\ InFlight' # 1)
        /\ ~AllFilled(inputs)
           => ~ENABLED (KeydownEvent(i, "Enter") /\ InFlight' # InFlight)

C28_FocusIndexInRange ==
    /\ activeInputIndex \in Cells
    /\ Cardinality({i \in Cells : i = activeInputIndex}) = 1

\* the index is on the last cell, every cell is filled, and ArrowRight and a
\* further digit can reach the last cell
C28_Witness ==
    /\ variant = "component"
    /\ activeInputIndex = NumCells - 1
    /\ domFocus = NumCells - 1
    /\ AllFilled(inputs)
    /\ ENABLED ComponentHandleKeydown(NumCells - 1, "ArrowRight")
    /\ ENABLED ComponentHandleInput(NumCells - 1, WrongDigit)

\* C29: in both variants, in every reachable state there are exactly six
\* cells and each of them is empty or holds exactly one decimal digit.
C29_CellsHoldOneDigit ==
    /\ DOMAIN inputs = Cells
    /\ Cardinality(DOMAIN inputs) = 6
    /\ \A i \in Cells : inputs[i] = "" \/ inputs[i] \in Digits

\* a paste of more than six digits has been made into the component, and
\* every cell holds one digit
C29_Witness ==
    /\ \A i \in Cells : inputs[i] \in Digits
    /\ ENABLED ComponentHandlePaste(0, <<"1", "2", "3", "4", "5", "6", "7">>)
    /\ ENABLED ComponentHandleInput(0, "12")
    /\ activeInputIndex = NumCells - 1

\* C30: in both variants isLoading is true in exactly the states where a
\* verification is in flight; so it is true from the start of a verification
\* on and is not false while some verification is still pending.
C30_LoadingIffInFlight == isLoading <=> (InFlight > 0)

\* the calls of handlePaste whose closing timer is pending in q
PasteRuns(q) == Cardinality({j \in 1..Len(q) : q[j].kind = "final"})

\* C31: page variant: one paste event runs the paste logic once: after the
\* event one closing timer is pending, which for six digits arms the one
\* auto-submit.
C31_PasteRunsOnce ==
    [][\A i \in Cells : \A t \in PasteTexts :
          (PageHandlePaste(i, t) /\ StripNonDigits(t) # <<>>)
          => PasteRuns(timers') = 1]_vars

\* a digit typed at the caret of cell i, nothing selected: the browser takes
\* it only while the element holds fewer characters than its maxlength, 1
PlainTyping(i, d) == domText[i] < 1 /\ ComponentHandleInput(i, d)

\* C32: component variant: whenever a cell is empty, has the focus and no
\* verification is in flight, each digit typed into it is accepted and sets
\* the cell to that digit (for the cells whose element's text is followed).
C32_EmptyCellAcceptsDigit ==
    \A i \in TextCells :
        (/\ variant = "component"
         /\ domFocus = i
         /\ inputs[i] = ""
         /\ InFlight = 0)
        => \A d \in InputDigits(i) : ENABLED (PlainTyping(i, d) /\ inputs'[i] = d)

\* C33: component variant: the submit button is enabled (neither
\* isButtonDisabled nor isLoading) in exactly the states where all six cells
\* are filled and no verification is in flight.
C33_ButtonEnabledIffComplete ==
    (~(isButtonDisabled \/ isLoading)) <=> (AllFilled(inputs) /\ InFlight = 0)

\* a failed verification has resolved and its delayed clear is pending: the
\* six cells are still filled and the button is enabled again
C33_Witness ==
    /\ variant = "component"
    /\ AllFilled(inputs)
    /\ ~isButtonDisabled /\ ~isLoading
    /\ \E j \in 1..Len(timers) : timers[j].kind = "clear"

\* C34: component variant: in every state after a flush, the button label is
\* "Let's go!" while the lifecycle is Success and "Wrong code!" while it is
\* Error.
C34_ResultLabelKept ==
    variant = "component"
    => /\ Lifecycle = "Success" => buttonText = "Let's go!"
       /\ Lifecycle = "Error" => buttonText = "Wrong code!"

\* C35: in both variants, with fair timers and whatever the user does, every
\* state with a verification in flight is followed by a state with no
\* verification in flight and isLoading false.
C35_VerificationResolves ==
    (InFlight > 0) ~> (InFlight = 0 /\ ~isLoading)

Arrows == {"ArrowLeft", "ArrowRight", "ArrowUp", "ArrowDown"}

\* C36: in both variants an arrow keydown and a focus event on a cell change
\* no cell, not the lifecycle state and not the loading flag, and start no
\* verification.
C36_ArrowsAndFocusOnlyMoveFocus ==
    [][(\E i \in Cells :
           \/ \E k \in Arrows : KeydownEvent(i, k)
           \/ ComponentFocus(i)
           \/ PageFocus(i))
       => (/\ inputs' = inputs
           /\ currentState' = currentState
           /\ Lifecycle' = Lifecycle
           /\ isLoading' = isLoading
           /\ InFlight' = InFlight)]_vars

\* a verification of six filled cells is in flight, cell 2 has the focus and
\* ArrowRight can be pressed there
C36_Witness ==
    /\ isLoading
    /\ InFlight = 1
    /\ AllFilled(inputs)
    /\ domFocus = 2
    /\ activeInputIndex = 2
    /\ ENABLED KeydownEvent(2, "ArrowRight")

\* the cells after a settled paste of the digit string d
PastedCells(d) == [i \in Cells |-> IF i < Min(Len(d), NumCells) THEN d[i + 1] ELSE ""]

\* C37: page variant: a paste of a text with digits d into any cell empties
\* the cells and arms its timers with d; when the last of these timers has
\* fired, the cells 0 .. min(len(d), 6) - 1 hold the first digits of d, every
\* other cell is empty, currentCode is the cells joined and the focus is on
\* cell min(len(d), 5).
C37_PageSettledPaste ==
    [][/\ \A i \in Cells : \A t \in PasteTexts :
            (PageHandlePaste(i, t) /\ StripNonDigits(t) # <<>>)
            => /\ inputs' = EmptyCells
               /\ \A j \in 1..Len(timers') :
                     timers'[j].kind = "final" => timers'[j].note = StripNonDigits(t)
       /\ (PageSettle /\ ~PastePending(timers'))
            => LET d == Head(timers).note
               IN /\ inputs' = PastedCells(d)
                  /\ currentCode' = Join(inputs')
                  /\ activeInputIndex' = Min(Len(d), 5)]_vars

\* the digits 1,2 have been pasted into cell 3 of the page, they have
\* dropped into cells 0 and 1 and the closing timers of the paste are due
C37_Witness ==
    /\ variant = "page"
    /\ activeInputIndex = 3
    /\ inputs = PastedCells(<<"1", "2">>)
    /\ timers # <<>>
    /\ \A j \in 1..Len(timers) : timers[j].kind = "final"
    /\ ENABLED PageSettle

====
